---- MODULE Spec2Model ----
(***************************************************************************)
(* Model of distcache/consistent_hashing.py: the ConsistentHashing ring.   *)
(*                                                                         *)
(* State: ring (the sorted list of (position, server) tuples), occupied    *)
(* (the set of positions), and the values the built-in hash() has returned *)
(* so far in this process.  hash() of a str is a pure function inside one  *)
(* process whose values depend on the process's hash seed: hashOf          *)
(* memoises the value of every string hashed so far and a string hashed    *)
(* for the first time may get any value of hash()'s codomain, which has    *)
(* hashSpace values (2^64 in CPython, a small number here).                *)
(* last records the latest call and how it ended, calls counts the calls   *)
(* made on the constructed ring; prevRing and prevOccupied hold ring and   *)
(* occupied as they were when the latest call started.  frame holds the    *)
(* local variables of the code that is in progress between two states: in  *)
(* Spec and SpecWeights every call is one step and frame is NoFrame.       *)
(***************************************************************************)
EXTENDS Integers, Sequences, FiniteSets, TLC

VARIABLES ring, occupied, hashOf, hashSpace, constructed, last, calls,
          prevRing, prevOccupied, frame

vars == <<ring, occupied, hashOf, hashSpace, constructed, last, calls,
          prevRing, prevOccupied, frame>>

(***************************************************************************)
(* Bounds of the model.                                                    *)
(***************************************************************************)
PosSpace == 4        \* hash() returns a value in 0 .. PosSpace-1
MaxRetry == 1        \* rehashes of one replica label that are followed
MaxRing == 4         \* add_node calls that would grow ring beyond this are not made
MaxCalls == 3        \* calls made on the ring after its construction
WeightsPosSpace == 5 \* PosSpace, MaxRing and MaxCalls of the specification
WeightsMaxRing == 5  \*   SpecWeights, in which rings are built with the
WeightsMaxCalls == 1 \*   default weight
ScenarioPosSpace == 16 \* PosSpace and MaxCalls of the specification
ScenarioMaxCalls == 4  \*   SpecScenario, the run of the __main__ driver
StepsPosSpace == 3     \* PosSpace, MaxRetry and MaxCalls of the
StepsMaxRetry == 2     \*   specification SpecSteps, in which a call is a
StepsMaxCalls == 2     \*   sequence of steps

\* the values hash() can return
Positions == 0 .. (hashSpace - 1)

Nodes == {"A", "B", "C"}

\* weights handed to add_node
Weights == {1, 2}

\* keys handed to get_node: a free key and a string that is also a replica label
Keys == {"my_key", "A_0"}

\* self.weight = 5 and add_node's weight=5
DefaultWeight == 5

\* the value of a call that returns nothing / of a lookup that raised
None == "None"

\* no code is in progress
NoFrame == [pc |-> "idle"]

(***************************************************************************)
(* Python helpers.                                                         *)
(***************************************************************************)

\* "{}_{}".format(s, i)
Format(s, i) == s \o "_" \o ToString(i)

\* the values hash(s) may have, given the values hash() has returned so far
HashValues(h, s) == IF s \in DOMAIN h THEN {h[s]} ELSE Positions

\* Memo for a hash() that does not return the same value again
MemoForget(h, s, p) == h

\* the table of returned hash values once hash(s) has returned p
Memo(h, s, p) == IF s \in DOMAIN h THEN h ELSE (s :> p) @@ h

\* str < str on the server names of the model
StrRank == [n \in Nodes |-> CASE n = "A" -> 1 [] n = "B" -> 2 [] n = "C" -> 3]

\* tuple comparison (p1, n1) < (p2, n2) of two ring entries
EntryLess(x, y) == \/ x[1] < y[1]
                   \/ x[1] = y[1] /\ StrRank[x[2]] < StrRank[y[2]]

\* bisect.insort (insort_right): the index (0-based) where x is inserted
RECURSIVE InsortIndex(_, _, _, _)
InsortIndex(a, x, lo, hi) ==
    IF lo < hi
    THEN LET mid == (lo + hi) \div 2
         IN  IF EntryLess(x, a[mid + 1])
             THEN InsortIndex(a, x, lo, mid)
             ELSE InsortIndex(a, x, mid + 1, hi)
    ELSE lo

Insort(a, x) ==
    LET k == InsortIndex(a, x, 0, Len(a))
    IN  SubSeq(a, 1, k) \o <<x>> \o SubSeq(a, k + 1, Len(a))

\* outcome of bisect_right when a comparison raised TypeError
TypeErr == -1

\* bisect_right(self.ring, (h, None)): comparing (h, None) with (p, server)
\* compares h with p and, when they are equal, None with the server name,
\* which raises TypeError
RECURSIVE BisectRight(_, _, _, _)
BisectRight(a, h, lo, hi) ==
    IF lo < hi
    THEN LET mid == (lo + hi) \div 2
         IN  IF h = a[mid + 1][1]
             THEN TypeErr
             ELSE IF h < a[mid + 1][1]
                  THEN BisectRight(a, h, lo, mid)
                  ELSE BisectRight(a, h, mid + 1, hi)
    ELSE lo

(***************************************************************************)
(* _generate_ring, lines 73-83, as the step relation of the call that runs *)
(* it.  st = [ring, occupied, hashOf, status] is the state the loops have  *)
(* built so far, id (1-based) and i are the loop indices, key is the label *)
(* being placed and n the number of times it was rehashed; call is the     *)
(* record of the running call.  A label is rehashed at most MaxRetry times.*)
(***************************************************************************)

\* the call ends in state st
Commit(st, call) ==
    /\ ring' = st.ring
    /\ occupied' = st.occupied
    /\ hashOf' = st.hashOf
    /\ constructed' = (constructed \/ st.status = "ok")
    /\ last' = [call EXCEPT !.status = st.status]

\* the label of replica 0 of the id-th node
FirstKey(nodes, id) == IF id <= Len(nodes) THEN Format(nodes[id], 0) ELSE ""

\* lines 82-83: the replica is placed at position
Place(st, node, position, h2) ==
    [ring     |-> Insort(st.ring, <<position, node>>),
     occupied |-> st.occupied \cup {position},
     hashOf   |-> h2,
     status   |-> st.status]

\* _generate_ring with the collision loop replaced by skipping the replica
\* whose position is occupied
RECURSIVE GenerateRingSkipOccupied(_, _, _, _, _, _, _, _)
GenerateRingSkipOccupied(st, nodes, weights, id, i, key, n, call) ==
    IF id > Len(nodes)
    THEN Commit(st, call)
    ELSE IF id > Len(weights)
    THEN Commit([st EXCEPT !.status = "IndexError"], call)
    ELSE IF i >= weights[id]
    THEN GenerateRingSkipOccupied(st, nodes, weights, id + 1, 0,
                                  FirstKey(nodes, id + 1), 0, call)
    ELSE \E position \in HashValues(st.hashOf, key) :
         \E s2 \in { IF position \in st.occupied
                     THEN [st EXCEPT !.hashOf = Memo(st.hashOf, key, position)]
                     ELSE Place(st, nodes[id], position,
                                Memo(st.hashOf, key, position)) } :
            GenerateRingSkipOccupied(s2, nodes, weights, id, i + 1,
                                     Format(nodes[id], i + 1), 0, call)

RECURSIVE GenerateRing(_, _, _, _, _, _, _, _)
GenerateRing(st, nodes, weights, id, i, key, n, call) ==
    IF id > Len(nodes)
    THEN Commit(st, call)
    ELSE IF id > Len(weights)
    THEN Commit([st EXCEPT !.status = "IndexError"], call)
    ELSE IF i >= weights[id]
    THEN GenerateRing(st, nodes, weights, id + 1, 0,
                      FirstKey(nodes, id + 1), 0, call)
    ELSE \E position \in HashValues(st.hashOf, key) :
           IF position \in st.occupied
           THEN /\ n < MaxRetry
                /\ \E s2 \in {[st EXCEPT
                                  !.hashOf = Memo(st.hashOf, key, position)]},
                      key2 \in {Format(key, i)} :
                      GenerateRing(s2, nodes, weights, id, i, key2, n + 1,
                                   call)
           ELSE \E s2 \in {Place(st, nodes[id], position,
                                 Memo(st.hashOf, key, position))},
                   key2 \in {Format(nodes[id], i + 1)} :
                   GenerateRing(s2, nodes, weights, id, i + 1, key2, 0, call)

\* _generate_ring(nodes, weights) run from the current state
RunGenerateRing(nodes, weights, call) ==
    \E st \in {[ring |-> ring, occupied |-> occupied, hashOf |-> hashOf,
                status |-> "ok"]} :
        GenerateRing(st, nodes, weights, 1, 0, FirstKey(nodes, 1), 0, call)

(***************************************************************************)
(* remove_node, lines 92-98: outcome [ring, occupied, status].             *)
(***************************************************************************)
\* RemoveLoop without the assignment self.ring = temp
RECURSIVE RemoveLoopNoCommit(_, _, _, _, _)
RemoveLoopNoCommit(r, occ, node, idx, temp) ==
    IF idx > Len(r)
    THEN [ring |-> r, occupied |-> occ, status |-> "ok"]
    ELSE IF r[idx][2] # node
         THEN IF r[idx][1] \in occ
              THEN RemoveLoopNoCommit(r, occ \ {r[idx][1]}, node, idx + 1,
                                      Append(temp, r[idx]))
              ELSE [ring |-> r, occupied |-> occ, status |-> "KeyError"]
         ELSE RemoveLoopNoCommit(r, occ, node, idx + 1, temp)

\* RemoveLoop with the test server != node inverted
RECURSIVE RemoveLoopInverted(_, _, _, _, _)
RemoveLoopInverted(r, occ, node, idx, temp) ==
    IF idx > Len(r)
    THEN [ring |-> temp, occupied |-> occ, status |-> "ok"]
    ELSE IF r[idx][2] = node
         THEN IF r[idx][1] \in occ
              THEN RemoveLoopInverted(r, occ \ {r[idx][1]}, node, idx + 1,
                                      Append(temp, r[idx]))
              ELSE [ring |-> r, occupied |-> occ, status |-> "KeyError"]
         ELSE RemoveLoopInverted(r, occ, node, idx + 1, temp)

RECURSIVE RemoveLoop(_, _, _, _, _)
RemoveLoop(r, occ, node, idx, temp) ==
    IF idx > Len(r)
    THEN [ring |-> temp, occupied |-> occ, status |-> "ok"]
    ELSE IF r[idx][2] # node
         THEN IF r[idx][1] \in occ
              THEN RemoveLoop(r, occ \ {r[idx][1]}, node, idx + 1,
                              Append(temp, r[idx]))
              ELSE [ring |-> r, occupied |-> occ, status |-> "KeyError"]
         ELSE RemoveLoop(r, occ, node, idx + 1, temp)

RemoveResult(r, occ, node) == RemoveLoop(r, occ, node, 1, <<>>)

(***************************************************************************)
(* get_node, lines 106-109, on hash value h: [status, ret].                *)
(***************************************************************************)
\* get_node without lines 107-108 (no wrap to the first entry)
GetNodeResultNoWrap(r, h) ==
    LET b == BisectRight(r, h, 0, Len(r))
        position == b
    IN  IF b = TypeErr
        THEN [status |-> "TypeError", ret |-> None]
        ELSE IF position >= Len(r)
             THEN [status |-> "IndexError", ret |-> None]
             ELSE [status |-> "ok", ret |-> r[position + 1][2]]

GetNodeResult(r, h) ==
    LET b == BisectRight(r, h, 0, Len(r))
        position == IF b = Len(r) THEN 0 ELSE b
    IN  IF b = TypeErr
        THEN [status |-> "TypeError", ret |-> None]
        ELSE IF position >= Len(r)
             THEN [status |-> "IndexError", ret |-> None]
             ELSE [status |-> "ok", ret |-> r[position + 1][2]]

(***************************************************************************)
(* The operations.                                                         *)
(***************************************************************************)
InitRing ==
    /\ ring = <<>>
    /\ occupied = {}
    /\ constructed = FALSE
    /\ calls = 0
    /\ prevRing = <<>>
    /\ prevOccupied = {}
    /\ frame = NoFrame
    /\ last = [op |-> "none", arg |-> None, weight |-> 0, nodes |-> <<>>,
               weights |-> <<>>, status |-> "ok", ret |-> None]

Init == InitRing /\ hashOf = <<>> /\ hashSpace = PosSpace

\* __init__(nodes, weights): an omitted list (None) and an empty list take
\* the same branches and both are the empty sequence here
Construct(nodes, weights) ==
    /\ ~constructed
    /\ last.op = "none"
    /\ LET w == IF nodes # <<>> /\ weights = <<>>
                THEN [k \in 1 .. Len(nodes) |-> DefaultWeight]
                ELSE weights
           call == [op |-> "construct", arg |-> None, weight |-> 0,
                    nodes |-> nodes, weights |-> weights,
                    status |-> "ok", ret |-> None]
       IN  IF nodes # <<>> /\ Len(nodes) > 0
           THEN RunGenerateRing(nodes, w, call)
           ELSE /\ last' = call
                /\ constructed' = TRUE
                /\ UNCHANGED <<ring, occupied, hashOf>>
    /\ prevRing' = ring
    /\ prevOccupied' = occupied
    /\ UNCHANGED <<hashSpace, calls>>

AddNode(node, weight) ==
    /\ constructed
    /\ RunGenerateRing(<<node>>, <<weight>>,
                       [op |-> "add_node", arg |-> node, weight |-> weight,
                        nodes |-> <<>>, weights |-> <<>>,
                        status |-> "ok", ret |-> None])
    /\ prevRing' = ring
    /\ prevOccupied' = occupied
    /\ calls' = calls + 1
    /\ UNCHANGED hashSpace

RemoveNode(node) ==
    /\ constructed
    /\ LET res == RemoveResult(ring, occupied, node)
       IN  /\ ring' = res.ring
           /\ occupied' = res.occupied
           /\ last' = [op |-> "remove_node", arg |-> node, weight |-> 0,
                       nodes |-> <<>>, weights |-> <<>>,
                       status |-> res.status, ret |-> None]
    /\ prevRing' = ring
    /\ prevOccupied' = occupied
    /\ calls' = calls + 1
    /\ UNCHANGED <<hashOf, hashSpace, constructed>>

GetNode(key) ==
    /\ constructed
    /\ \E h \in HashValues(hashOf, key) :
         LET res == GetNodeResult(ring, h)
         IN  /\ hashOf' = Memo(hashOf, key, h)
             /\ last' = [op |-> "get_node", arg |-> key, weight |-> 0,
                         nodes |-> <<>>, weights |-> <<>>,
                         status |-> res.status, ret |-> res.ret]
    /\ prevRing' = ring
    /\ prevOccupied' = occupied
    /\ calls' = calls + 1
    /\ UNCHANGED <<ring, occupied, hashSpace, constructed>>

\* the (nodes, weights) argument lists handed to __init__: no nodes, equal
\* lengths, a weights list that is too short and one that is too long
CtorArgs ==
    { << <<>>, <<>> >>,
      << <<"A", "B", "C">>, <<1, 1, 1>> >>,
      << <<"A", "B">>, <<1>> >>,
      << <<"B">>, <<1, 2>> >> }

Next ==
    \/ \E args \in CtorArgs : Construct(args[1], args[2]) /\ UNCHANGED frame
    \/ \E node \in Nodes, weight \in Weights :
         /\ calls < MaxCalls
         /\ Len(ring) + weight <= MaxRing
         /\ AddNode(node, weight)
         /\ UNCHANGED frame
    \/ \E node \in Nodes :
         calls < MaxCalls /\ RemoveNode(node) /\ UNCHANGED frame
    \/ \E key \in Keys :
         calls < MaxCalls /\ GetNode(key) /\ UNCHANGED frame

Spec == Init /\ [][Next]_vars

(***************************************************************************)
(* SpecWeights: rings built with the default weight, which needs a hash    *)
(* codomain of at least DefaultWeight values.  To keep the runs of the     *)
(* five-replica placements few, the process explored is one whose hash     *)
(* seed gives the first five replica labels of "A" the values of           *)
(* WeightsSeed, two of them equal; every other string is unconstrained.    *)
(* The default weight is used for "A" only.                                *)
(***************************************************************************)
WeightsSeed ==
    (Format("A", 0) :> 0) @@ (Format("A", 1) :> 0) @@
    (Format("A", 2) :> 2) @@ (Format("A", 3) :> 3) @@ (Format("A", 4) :> 4)

InitWeights == InitRing /\ hashOf = WeightsSeed /\ hashSpace = WeightsPosSpace

\* weights omitted, equal lengths, no nodes
CtorArgsWeights ==
    { << <<"A">>, <<>> >>,
      << <<"A", "B">>, <<2, 1>> >>,
      << <<"C", "A">>, <<1, 3>> >>,
      << <<>>, <<>> >> }

NextWeights ==
    \/ \E args \in CtorArgsWeights :
         Construct(args[1], args[2]) /\ UNCHANGED frame
    \/ \E node \in Nodes, weight \in {1, DefaultWeight} :
         /\ calls < WeightsMaxCalls
         /\ Len(ring) + weight <= WeightsMaxRing
         /\ weight = DefaultWeight => node = "A"
         /\ AddNode(node, weight)
         /\ UNCHANGED frame
    \/ \E node \in Nodes :
         calls < WeightsMaxCalls /\ RemoveNode(node) /\ UNCHANGED frame
    \/ \E key \in Keys :
         calls < WeightsMaxCalls /\ GetNode(key) /\ UNCHANGED frame

SpecWeights == InitWeights /\ [][NextWeights]_vars

(***************************************************************************)
(* SpecScenario: the __main__ driver, lines 112-124.  It builds the ring   *)
(* of three servers with the weights [5, 3, 1], looks a key up, removes    *)
(* the server returned and looks the key up again; here the last lookup is *)
(* repeated.  frame holds the driver's position and its variables: key is  *)
(* the key looked up (the literal of lines 118 and 123), server the result *)
(* of line 118 and after the result of line 123.  An exception ends the    *)
(* driver (pc "raised").  The process explored is one whose hash seed      *)
(* gives the replica labels of "A" and "B" the values of ScenarioSeed; the *)
(* hash of every other string is unconstrained.                            *)
(***************************************************************************)
ScenarioNodes == <<"A", "B", "C">>

ScenarioWeights == <<5, 3, 1>>

ScenarioSeed ==
    (Format("A", 0) :> 1) @@ (Format("A", 1) :> 4) @@ (Format("A", 2) :> 7)
    @@ (Format("A", 3) :> 10) @@ (Format("A", 4) :> 13)
    @@ (Format("B", 0) :> 2) @@ (Format("B", 1) :> 8) @@ (Format("B", 2) :> 14)

InitScenario ==
    InitRing /\ hashOf = ScenarioSeed /\ hashSpace = ScenarioPosSpace

\* line 117
MainConstruct ==
    /\ frame = NoFrame
    /\ Construct(ScenarioNodes, ScenarioWeights)
    /\ \E key \in Keys :
         frame' = [pc |-> "line118", key |-> key, server |-> None,
                   after |-> None]

\* line 118
MainLookup ==
    /\ frame.pc = "line118"
    /\ GetNode(frame.key)
    /\ frame' = IF last'.status = "ok"
                THEN [frame EXCEPT !.pc = "line121", !.server = last'.ret]
                ELSE [frame EXCEPT !.pc = "raised"]

\* line 121
MainRemove ==
    /\ frame.pc = "line121"
    /\ RemoveNode(frame.server)
    /\ frame' = IF last'.status = "ok"
                THEN [frame EXCEPT !.pc = "line123"]
                ELSE [frame EXCEPT !.pc = "raised"]

\* line 123
MainLookupAfter ==
    /\ frame.pc = "line123"
    /\ GetNode(frame.key)
    /\ frame' = IF last'.status = "ok"
                THEN [frame EXCEPT !.pc = "again", !.after = last'.ret]
                ELSE [frame EXCEPT !.pc = "raised"]

\* line 123 once more
MainLookupAgain ==
    /\ frame.pc = "again"
    /\ GetNode(frame.key)
    /\ frame' = IF last'.status = "ok"
                THEN frame
                ELSE [frame EXCEPT !.pc = "raised"]

NextScenario ==
    \/ MainConstruct
    \/ MainLookup
    \/ MainRemove
    \/ MainLookupAfter
    \/ calls < ScenarioMaxCalls /\ MainLookupAgain

SpecScenario == InitScenario /\ [][NextScenario]_vars

(***************************************************************************)
(* SpecSteps: the calls that change the ring as sequences of steps, one    *)
(* step per iteration of the loops of _generate_ring and remove_node, with *)
(* frame holding the local variables of the running call: call is its      *)
(* record, ring0 and occ0 are ring and occupied as they were when it       *)
(* started, n counts the rehashes of the label being placed.  A get_node   *)
(* may run between any two steps of a running call (a reader in another    *)
(* thread); one call that changes the ring runs at a time.                 *)
(***************************************************************************)

\* the frame of _generate_ring(nodes, weights) at its first line
GenFrame(call, nodes, weights) ==
    [pc |-> "for", call |-> call, nodes |-> nodes, weights |-> weights,
     id |-> 1, i |-> 0, key |-> "", position |-> 0, n |-> 0,
     ring0 |-> ring, occ0 |-> occupied]

\* the running call returns or raises
Finish(status) ==
    /\ frame' = NoFrame
    /\ last' = [frame.call EXCEPT !.status = status]
    /\ constructed' = (constructed \/ status = "ok")
    /\ prevRing' = frame.ring0
    /\ prevOccupied' = frame.occ0

\* __init__ up to the call of _generate_ring, lines 64-71
StepConstruct(nodes, weights) ==
    /\ frame = NoFrame /\ ~constructed /\ last.op = "none"
    /\ LET w == IF nodes # <<>> /\ weights = <<>>
                THEN [k \in 1 .. Len(nodes) |-> DefaultWeight]
                ELSE weights
           call == [op |-> "construct", arg |-> None, weight |-> 0,
                    nodes |-> nodes, weights |-> weights,
                    status |-> "ok", ret |-> None]
       IN  IF nodes # <<>> /\ Len(nodes) > 0
           THEN /\ frame' = GenFrame(call, nodes, w)
                /\ last' = [call EXCEPT !.status = "running"]
                /\ UNCHANGED <<constructed, prevRing, prevOccupied>>
           ELSE /\ frame' = NoFrame
                /\ last' = call
                /\ constructed' = TRUE
                /\ prevRing' = ring
                /\ prevOccupied' = occupied
    /\ UNCHANGED <<ring, occupied, hashOf, hashSpace, calls>>

\* add_node up to the call of _generate_ring, line 86
StepAddNode(node, weight) ==
    /\ frame = NoFrame /\ constructed
    /\ frame' = GenFrame([op |-> "add_node", arg |-> node, weight |-> weight,
                          nodes |-> <<>>, weights |-> <<>>,
                          status |-> "ok", ret |-> None],
                         <<node>>, <<weight>>)
    /\ calls' = calls + 1
    /\ UNCHANGED <<ring, occupied, hashOf, hashSpace, constructed, last,
                   prevRing, prevOccupied>>

\* the heads of the two for loops and lines 76-77
GenFor ==
    /\ frame.pc = "for"
    /\ IF frame.id > Len(frame.nodes)
       THEN Finish("ok") /\ UNCHANGED hashOf
       ELSE IF frame.id > Len(frame.weights)
       THEN Finish("IndexError") /\ UNCHANGED hashOf
       ELSE IF frame.i >= frame.weights[frame.id]
       THEN /\ frame' = [frame EXCEPT !.id = frame.id + 1, !.i = 0]
            /\ UNCHANGED <<hashOf, last, constructed, prevRing,
                           prevOccupied>>
       ELSE LET key == Format(frame.nodes[frame.id], frame.i)
            IN  \E position \in HashValues(hashOf, key) :
                   /\ hashOf' = Memo(hashOf, key, position)
                   /\ frame' = [frame EXCEPT !.pc = "while", !.key = key,
                                             !.position = position, !.n = 0]
                   /\ UNCHANGED <<last, constructed, prevRing,
                                  prevOccupied>>
    /\ UNCHANGED <<ring, occupied, hashSpace, calls>>

\* lines 79-81: the position is occupied, the label is extended and hashed
GenRehash ==
    /\ frame.pc = "while"
    /\ frame.position \in occupied
    /\ LET key == Format(frame.key, frame.i)
       IN  \E position \in HashValues(hashOf, key) :
              /\ hashOf' = Memo(hashOf, key, position)
              /\ frame' = [frame EXCEPT !.key = key, !.position = position,
                                        !.n = frame.n + 1]
    /\ UNCHANGED <<ring, occupied, hashSpace, constructed, last, calls,
                   prevRing, prevOccupied>>

\* lines 79, 82-83: the position is free, the replica is placed
GenPlace ==
    /\ frame.pc = "while"
    /\ frame.position \notin occupied
    /\ occupied' = occupied \cup {frame.position}
    /\ ring' = Insort(ring, <<frame.position, frame.nodes[frame.id]>>)
    /\ frame' = [frame EXCEPT !.pc = "for", !.i = frame.i + 1]
    /\ UNCHANGED <<hashOf, hashSpace, constructed, last, calls, prevRing,
                   prevOccupied>>

\* remove_node up to its loop, line 92
StepRemoveNode(node) ==
    /\ frame = NoFrame /\ constructed
    /\ frame' = [pc |-> "remove",
                 call |-> [op |-> "remove_node", arg |-> node, weight |-> 0,
                           nodes |-> <<>>, weights |-> <<>>,
                           status |-> "ok", ret |-> None],
                 node |-> node, idx |-> 1, temp |-> <<>>,
                 ring0 |-> ring, occ0 |-> occupied]
    /\ calls' = calls + 1
    /\ UNCHANGED <<ring, occupied, hashOf, hashSpace, constructed, last,
                   prevRing, prevOccupied>>

\* one iteration of the loop of lines 93-96
RemoveIter ==
    /\ frame.pc = "remove"
    /\ frame.idx <= Len(ring)
    /\ IF ring[frame.idx][2] # frame.node
       THEN IF ring[frame.idx][1] \in occupied
            THEN /\ occupied' = occupied \ {ring[frame.idx][1]}
                 /\ frame' = [frame EXCEPT
                                 !.temp = Append(frame.temp, ring[frame.idx]),
                                 !.idx = frame.idx + 1]
                 /\ UNCHANGED <<last, constructed, prevRing, prevOccupied>>
            ELSE Finish("KeyError") /\ UNCHANGED occupied
       ELSE /\ frame' = [frame EXCEPT !.idx = frame.idx + 1]
            /\ UNCHANGED <<occupied, last, constructed, prevRing,
                           prevOccupied>>
    /\ UNCHANGED <<ring, hashOf, hashSpace, calls>>

\* lines 97-98
RemoveCommit ==
    /\ frame.pc = "remove"
    /\ frame.idx > Len(ring)
    /\ ring' = frame.temp
    /\ Finish("ok")
    /\ UNCHANGED <<occupied, hashOf, hashSpace, calls>>

\* get_node, run by a reader whatever the running call is doing
StepGetNode(key) == GetNode(key) /\ UNCHANGED frame

InitSteps == InitRing /\ hashOf = <<>> /\ hashSpace = StepsPosSpace

\* no nodes, equal lengths, a weights list that is too short
CtorArgsSteps ==
    { << <<>>, <<>> >>,
      << <<"A", "B">>, <<2, 1>> >>,
      << <<"A", "B">>, <<1>> >> }

NextSteps ==
    \/ \E args \in CtorArgsSteps : StepConstruct(args[1], args[2])
    \/ \E node \in Nodes, weight \in Weights :
         calls < StepsMaxCalls /\ StepAddNode(node, weight)
    \/ GenFor
    \/ frame.pc = "while" /\ frame.n < StepsMaxRetry /\ GenRehash
    \/ GenPlace
    \/ \E node \in Nodes : calls < StepsMaxCalls /\ StepRemoveNode(node)
    \/ RemoveIter
    \/ RemoveCommit
    \/ \E key \in Keys : calls < StepsMaxCalls /\ StepGetNode(key)

SpecSteps == InitSteps /\ [][NextSteps]_vars

(***************************************************************************)
(* Vocabulary of the properties.                                           *)
(***************************************************************************)
Called(op) == last.op = op

HasEntry(r, node) == \E i \in 1 .. Len(r) : r[i][2] = node

EntryCount(r, node) == Cardinality({i \in 1 .. Len(r) : r[i][2] = node})

PositionsOf(r) == {r[i][1] : i \in 1 .. Len(r)}

PositionsOfNode(r, node) == {r[i][1] : i \in {j \in 1 .. Len(r) : r[j][2] = node}}

\* the entries of r whose node is not the given one, in the order of r
RECURSIVE Without(_, _)
Without(r, node) ==
    IF r = <<>> THEN <<>>
    ELSE IF Head(r)[2] = node THEN Without(Tail(r), node)
         ELSE <<Head(r)>> \o Without(Tail(r), node)

\* r is a subsequence of s
RECURSIVE IsSubSeq(_, _)
IsSubSeq(r, s) ==
    IF r = <<>> THEN TRUE
    ELSE IF s = <<>> THEN FALSE
         ELSE IF Head(r) = Head(s) THEN IsSubSeq(Tail(r), Tail(s))
              ELSE IsSubSeq(r, Tail(s))

\* the node at the first entry of r whose position is strictly greater than
\* h, the node at the first entry of r when there is none
SuccessorNode(r, h) ==
    LET above == {i \in 1 .. Len(r) : r[i][1] > h}
    IN  IF above = {} THEN r[1][2]
        ELSE r[CHOOSE i \in above : \A j \in above : i <= j][2]

(***************************************************************************)
(* C1: after construct and any sequence of add_node / remove_node calls    *)
(* the positions of the entries of ring are strictly increasing (sorted,   *)
(* no position twice).                                                     *)
(***************************************************************************)
C1_StrictlyIncreasing ==
    \A i \in 1 .. (Len(ring) - 1) : ring[i][1] < ring[i + 1][1]

(***************************************************************************)
(* C2: on a non-empty ring every get_node(k) returns the node at the first *)
(* entry whose position is strictly greater than hash(k) (the first entry  *)
(* when there is none), also when hash(k) is the position of an entry, and *)
(* raises no error.                                                        *)
(***************************************************************************)
C2_GetNodeIsSuccessor ==
    (Called("get_node") /\ ring # <<>>) =>
        /\ last.status = "ok"
        /\ last.ret = SuccessorNode(ring, hashOf[last.arg])

(***************************************************************************)
(* C3: coverage.  Whatever get_node returns, for any hash value, is a node *)
(* that has an entry in ring; once remove_node(X) has completed X has no   *)
(* entry, and a node without entry gets one only by an add_node of it, so  *)
(* no lookup returns X until X is added again.                             *)
(***************************************************************************)
C3_Covered ==
    /\ \A h \in Positions :
          GetNodeResult(ring, h).status = "ok" =>
              HasEntry(ring, GetNodeResult(ring, h).ret)
    /\ (Called("get_node") /\ last.status = "ok") => HasEntry(ring, last.ret)
    /\ (Called("remove_node") /\ last.status = "ok") =>
          /\ ~HasEntry(ring, last.arg)
          /\ \A h \in Positions : GetNodeResult(ring, h).ret # last.arg

C3_AbsentUntilAdded ==
    \A X \in Nodes :
        (constructed /\ ~HasEntry(ring, X) /\ HasEntry(ring', X)) =>
            (last'.op = "add_node" /\ last'.arg = X)

C3_Coverage == [](C3_Covered) /\ [][C3_AbsentUntilAdded]_vars

\* a lookup returned a node on a ring from which a node that had been added
\* was removed (the label of replica 0 of "B" and "C" is hashed only when
\* the node is added; "A_0" is also a key)
C3_Witness ==
    /\ Called("get_node") /\ last.status = "ok"
    /\ \E X \in Nodes \ {"A"} :
          Format(X, 0) \in DOMAIN hashOf /\ ~HasEntry(ring, X)

(***************************************************************************)
(* C4: bounded remap on removal.  Every hash value that get_node mapped to *)
(* a node Y other than X before remove_node(X) is mapped to Y after it.    *)
(***************************************************************************)
C4_RemovalKeepsOthers ==
    Called("remove_node") =>
        \A h \in Positions :
            LET before == GetNodeResult(prevRing, h)
                after == GetNodeResult(ring, h)
            IN  (before.status = "ok" /\ before.ret # last.arg) =>
                    after = before

\* remove_node(X) deleted entries of X, entries of another node remain, and
\* some hash value moved away from X while another one kept its node
C4_Witness ==
    /\ Called("remove_node") /\ last.status = "ok"
    /\ HasEntry(prevRing, last.arg) /\ ring # <<>>
    /\ \E h \in Positions : GetNodeResult(prevRing, h).ret = last.arg
    /\ \E h \in Positions :
          /\ GetNodeResult(prevRing, h).status = "ok"
          /\ GetNodeResult(prevRing, h).ret # last.arg

(***************************************************************************)
(* C5: bounded remap on addition.  add_node(Y, w) keeps every entry that   *)
(* was in ring, and every key that was mapped to a node is mapped          *)
(* afterwards to the same node or to Y.                                    *)
(***************************************************************************)
C5_AdditionRemapsOnlyToNew ==
    Called("add_node") =>
        /\ IsSubSeq(prevRing, ring)
        /\ \A h \in Positions :
              LET before == GetNodeResult(prevRing, h)
                  after == GetNodeResult(ring, h)
              IN  before.status = "ok" =>
                      /\ after.status = "ok"
                      /\ after.ret = last.arg \/ after.ret = before.ret

(***************************************************************************)
(* C6: remove_node(X) deletes from ring exactly the entries of X and       *)
(* removes from occupied exactly the positions of the deleted entries.     *)
(***************************************************************************)
C6_RemoveFreesOwnPositions ==
    Called("remove_node") =>
        /\ ring = Without(prevRing, last.arg)
        /\ occupied = prevOccupied \ PositionsOfNode(prevRing, last.arg)
        /\ PositionsOf(ring) \subseteq occupied

(***************************************************************************)
(* C7: remove_node(X) of a node without entry in ring raises nothing and   *)
(* leaves ring and occupied as they were.                                  *)
(***************************************************************************)
C7_RemoveAbsentIsNoOp ==
    (Called("remove_node") /\ ~HasEntry(prevRing, last.arg)) =>
        /\ last.status = "ok"
        /\ ring = prevRing
        /\ occupied = prevOccupied

(***************************************************************************)
(* C8: get_node on a ring without entries ends with EmptyRingError, not    *)
(* with an index failure, and changes neither ring nor occupied.           *)
(***************************************************************************)
C8_EmptyRingError ==
    (Called("get_node") /\ ring = <<>>) =>
        /\ last.status = "EmptyRingError"
        /\ ring = prevRing
        /\ occupied = prevOccupied

(***************************************************************************)
(* C9: no partial failure.  When construct, add_node or remove_node ends   *)
(* with an error, ring and occupied are what they were before the call.    *)
(***************************************************************************)
C9_NoPartialFailure ==
    (last.op \in {"construct", "add_node", "remove_node"}
        /\ last.status # "ok") =>
        /\ ring = prevRing
        /\ occupied = prevOccupied

(***************************************************************************)
(* C10: weight proportionality.  After construct with pairwise distinct    *)
(* nodes and as many weights, node i has exactly weights[i] entries and    *)
(* ring has sum(weights) entries, whatever positions collided; with the    *)
(* weights omitted every node has DefaultWeight entries; add_node(X, w) of *)
(* a node without entries gives X exactly w entries.                       *)
(***************************************************************************)
RECURSIVE Sum(_)
Sum(s) == IF s = <<>> THEN 0 ELSE Head(s) + Sum(Tail(s))

PairwiseDistinct(s) ==
    \A i, j \in 1 .. Len(s) : i # j => s[i] # s[j]

C10_WeightProportional ==
    /\ (Called("construct") /\ PairwiseDistinct(last.nodes)
           /\ (last.weights = <<>> \/ Len(last.weights) = Len(last.nodes))) =>
          LET w == IF last.weights = <<>>
                   THEN [k \in 1 .. Len(last.nodes) |-> 5]
                   ELSE last.weights
          IN  /\ last.status = "ok"
              /\ Len(ring) = Sum(w)
              /\ \A i \in 1 .. Len(last.nodes) :
                    EntryCount(ring, last.nodes[i]) = w[i]
    /\ (Called("add_node") /\ ~HasEntry(prevRing, last.arg)) =>
          EntryCount(ring, last.arg) = last.weight

\* a ring constructed without weights in which a replica label collided
\* and was rehashed
C10_Witness ==
    /\ Called("construct") /\ last.nodes # <<>> /\ last.weights = <<>>
    /\ Len(ring) = 5 * Len(last.nodes)
    /\ \E i \in 0 .. 4 :
          Format(Format(last.nodes[1], i), i) \in DOMAIN hashOf

(***************************************************************************)
(* C11: wraparound.  On a non-empty ring, get_node of a key whose hash is  *)
(* greater than the position of every entry returns, without error, the    *)
(* node of the entry with the smallest position, which is the first entry  *)
(* of ring; the same holds for every hash value, looked up or not.         *)
(***************************************************************************)
AboveAll(r, h) == \A i \in 1 .. Len(r) : h > r[i][1]

SmallestPosition(r, i) == \A j \in 1 .. Len(r) : r[i][1] <= r[j][1]

C11_Wraparound ==
    /\ (Called("get_node") /\ ring # <<>>
           /\ AboveAll(ring, hashOf[last.arg])) =>
          /\ last.status = "ok"
          /\ last.ret = ring[1][2]
          /\ SmallestPosition(ring, 1)
    /\ \A h \in Positions :
          (ring # <<>> /\ AboveAll(ring, h)) =>
              /\ GetNodeResult(ring, h).status = "ok"
              /\ GetNodeResult(ring, h).ret = ring[1][2]
              /\ SmallestPosition(ring, 1)

\* a lookup whose hash is above the positions of a ring that holds entries
\* of two nodes, the entry with the greatest position not being of the
\* node returned
C11_Witness ==
    /\ Called("get_node") /\ last.status = "ok"
    /\ Len(ring) >= 2
    /\ AboveAll(ring, hashOf[last.arg])
    /\ ring[Len(ring)][2] # last.ret

(***************************************************************************)
(* C12: the scenario.  On the ring built from three distinct nodes with    *)
(* the weights [5, 3, 1], which has 9 entries, get_node(k) returns one of  *)
(* the three nodes, N, for any key k; after remove_node(N), get_node(k)    *)
(* succeeds and returns one of the two other nodes, and every further      *)
(* get_node(k) returns that same node.  No call of the scenario raises.    *)
(***************************************************************************)
ScenarioNodeSet == {ScenarioNodes[i] : i \in 1 .. Len(ScenarioNodes)}

C12_Scenario ==
    /\ frame.pc # "raised"
    /\ frame.pc \in {"line118", "line121"} => Len(ring) = 9
    /\ frame.pc \in {"line121", "line123", "again"} =>
          frame.server \in ScenarioNodeSet
    /\ frame.pc = "line123" => ~HasEntry(ring, frame.server)
    /\ frame.pc = "again" =>
          /\ frame.after \in ScenarioNodeSet \ {frame.server}
          /\ last.status = "ok"
          /\ last.ret = frame.after

(***************************************************************************)
(* C13: determinism.  get_node changes neither ring nor occupied, and a    *)
(* get_node(k) that directly follows a get_node(k), no other call in       *)
(* between, ends as the first one did: same node returned.                 *)
(***************************************************************************)
C13_LookupLeavesRing ==
    Called("get_node") => (ring = prevRing /\ occupied = prevOccupied)

C13_RepeatSame ==
    (Called("get_node") /\ last'.op = "get_node" /\ last'.arg = last.arg
        /\ calls' = calls + 1) =>
        /\ last'.status = last.status
        /\ last'.ret = last.ret
        /\ ring' = ring
        /\ occupied' = occupied

InCollisionLoop == frame.pc = "while" /\ frame.position \in occupied

C14_CollisionLoopEnds ==
    InCollisionLoop => \E p \in Positions : p \notin occupied

(***************************************************************************)
(* C15: batch atomicity under interleaving.  At every point at which a     *)
(* reader can run while a call is in progress (the ring is constructed     *)
(* and frame is the frame of an add_node or a remove_node), ring holds     *)
(* either none or all of the w entries that add_node(X, w) adds, either    *)
(* all or none of the entries of X that remove_node(X) removes, and        *)
(* occupied is the set of the positions of the entries of ring.            *)
(***************************************************************************)
AddInProgress == constructed /\ frame.pc \in {"for", "while"}

RemoveInProgress == constructed /\ frame.pc = "remove"

C15_BatchAtomic ==
    /\ AddInProgress =>
          /\ EntryCount(ring, frame.nodes[1])
                 - EntryCount(frame.ring0, frame.nodes[1])
                 \in {0, frame.weights[1]}
          /\ occupied = PositionsOf(ring)
    /\ RemoveInProgress =>
          /\ EntryCount(ring, frame.node)
                 \in {0, EntryCount(frame.ring0, frame.node)}
          /\ occupied = PositionsOf(ring)

(***************************************************************************)
(* C16: in every state reached by construct and completed add_node and     *)
(* remove_node calls, occupied is exactly the set of the positions of the  *)
(* entries of ring.                                                        *)
(***************************************************************************)
C16_OccupiedIsRingPositions == occupied = PositionsOf(ring)

(***************************************************************************)
(* C17: remove_node raises no error in any reachable state and leaves in   *)
(* ring exactly the entries of the other nodes; so on a ring of three      *)
(* nodes remove_node(X) and then remove_node(Y) both complete and ring     *)
(* holds the entries of the third node.                                    *)
(***************************************************************************)
C17_RemoveCompletes ==
    Called("remove_node") =>
        /\ last.status = "ok"
        /\ ring = Without(prevRing, last.arg)

(***************************************************************************)
(* C18: rejoin round trip.  When node X has w entries, at the hash values  *)
(* of its w replica labels (X was added once with weight w and no label    *)
(* collided), remove_node(X) followed by add_node(X, w) gives back the     *)
(* ring that was there before the removal, entry by entry.                 *)
(***************************************************************************)
\* the w entries of X in r are at the hash values of its w labels
AddedOnce(r, X, w) ==
    /\ EntryCount(r, X) = w
    /\ \A i \in 0 .. (w - 1) : Format(X, i) \in DOMAIN hashOf
    /\ PositionsOfNode(r, X) = {hashOf[Format(X, i)] : i \in 0 .. (w - 1)}
    /\ Cardinality(PositionsOfNode(r, X)) = w

C18_RejoinStep ==
    (/\ Called("remove_node") /\ last.status = "ok"
     /\ last'.op = "add_node" /\ last'.arg = last.arg
     /\ last'.weight > 0
     /\ AddedOnce(prevRing, last.arg, last'.weight)) =>
        ring' = prevRing

C18_RejoinRoundTrip == [][C18_RejoinStep]_vars

(***************************************************************************)
(* C19: after remove_node(X) on a ring that holds an entry of another      *)
(* node, every hash value that get_node mapped to X before the call is     *)
(* mapped to the next node clockwise: the node of the first entry of the   *)
(* ring before the call, from the hash value upwards and wrapping to the   *)
(* smallest position, whose node is not X.                                 *)
(***************************************************************************)
\* r holds an entry of a node other than X
HasOther(r, X) == \E i \in 1 .. Len(r) : r[i][2] # X

ClockwiseOther(r, h, X) ==
    LET others == {i \in 1 .. Len(r) : r[i][2] # X}
        above == {i \in others : r[i][1] > h}
        from == IF above = {} THEN others ELSE above
    IN  r[CHOOSE i \in from : \A j \in from : i <= j][2]

C19_RemapsToNextClockwise ==
    (Called("remove_node") /\ HasOther(prevRing, last.arg)) =>
        \A h \in Positions :
            LET before == GetNodeResult(prevRing, h)
                after == GetNodeResult(ring, h)
            IN  (before.status = "ok" /\ before.ret = last.arg) =>
                    /\ after.status = "ok"
                    /\ after.ret = ClockwiseOther(prevRing, h, last.arg)

(***************************************************************************)
(* C20: double add.  add_node(X, w) on a ring in which X has n >= 1        *)
(* entries leaves X with n + w entries: the entries that were in ring stay *)
(* as they were and each of the w new entries is at a position at which    *)
(* ring had no entry (w further positions).                                *)
(***************************************************************************)
C20_DoubleAdd ==
    (Called("add_node") /\ last.status = "ok"
        /\ HasEntry(prevRing, last.arg)) =>
        /\ EntryCount(ring, last.arg)
               = EntryCount(prevRing, last.arg) + last.weight
        /\ IsSubSeq(prevRing, ring)
        /\ Len(ring) = Len(prevRing) + last.weight
        /\ Cardinality(PositionsOf(ring) \ PositionsOf(prevRing))
               = last.weight
====
